---- MODULE Spec2Model ----
(***************************************************************************)
(* PR Copilot: the event-to-verdict pipeline.                              *)
(*                                                                         *)
(*   api/services/classifier.py   PRClassifier (classify_pr and helpers)  *)
(*   workers/process_pr.py        process_pull_request (the Celery task)  *)
(*   api/routes/webhooks.py       the webhook endpoint and the dispatch    *)
(*   api/services/github_client.py  verify_webhook_signature                *)
(*   api/database.py              the pull_requests table                  *)
(*                                                                         *)
(* Three specifications share the variables:                               *)
(*   SpecClassify  applies classify_pr to inputs drawn by Init;            *)
(*   Spec          runs deliveries of process_pull_request concurrently    *)
(*                 against one store;                                      *)
(*   SpecWebhook   applies handle_github_webhook, verify_webhook_signature *)
(*                 and _parse_bot_command to inputs drawn by Init, and     *)
(*                 runs the task a request dispatches.                     *)
(*                                                                         *)
(* Floats are kept in hundredths (0.3 is 30, 1.0 is 100).                  *)
(***************************************************************************)
EXTENDS Integers, Sequences, FiniteSets, TLC

VARIABLES
    cin,            \* the call under test: [fn, pr_data, pr_context, svc]
    cout,           \* its outcome: [status, result, called]
    SINGLE_PROCESS, \* webhooks.py:19, read once from the environment
    environ,        \* the workers' environment: which settings are present
    get_pr_context, \* what the call get_pr_context(...) yields (process_pr.py:49)
    store,          \* the pull_requests table: sequence of committed rows
    dlv,            \* the deliveries of process_pull_request
    classified,     \* deliveries that have invoked the reasoning service
    comments,       \* the calls of post_pr_comment made so far
    post_pr_comment, \* what the call post_pr_comment(...) does (process_pr.py:75)
    webhook_secret, \* GITHUB_WEBHOOK_SECRET (github_client.py:23)
    req,            \* the webhook call under test
    ret,            \* what verify_webhook_signature / _parse_bot_command returned
    http            \* the HTTP response each request was answered with

vars == <<cin, cout, SINGLE_PROCESS, environ, get_pr_context, store, dlv,
          classified, comments, post_pr_comment, webhook_secret, req, ret,
          http>>

-----------------------------------------------------------------------------
(* JSON / Python values.  Every value is a record [t, n, s]: t is the type *)
(* tag, n the number (hundredths for a float, the sign for an infinity),   *)
(* s the text of a string.                                                 *)

J(t, n, s) == [t |-> t, n |-> n, s |-> s]
Absent     == J("absent", 0, "")      \* the key is not in the dict
JNull      == J("null", 0, "")        \* None
JTrue      == J("bool", 1, "")
JFalse     == J("bool", 0, "")
JInt(n)    == J("int", n, "")
JFloat(h)  == J("float", h, "")       \* h hundredths
JNaN       == J("nan", 0, "")         \* float('nan')
JInf(sgn)  == J("inf", sgn, "")       \* float('inf') / float('-inf')
JStr(s)    == J("str", 0, s)
JList      == J("list", 0, "")        \* a non-empty list or nested object

\* dict.get(key, default)
Get(v, default) == IF v = Absent THEN default ELSE v

\* Python truthiness of a value (bool(v))
Truthy(v) ==
    CASE v.t = "absent" -> FALSE
      [] v.t = "null"   -> FALSE
      [] v.t = "bool"   -> v.n = 1
      [] v.t = "int"    -> v.n # 0
      [] v.t = "float"  -> v.n # 0
      [] v.t = "str"    -> v.s # ""
      [] OTHER          -> TRUE

\* What float(s) and int(s) accept among the strings the model draws.
FloatStrings == {"0.9", "75", "1.5"}
IntStrings   == {"75"}
StrHundredths(s) ==
    CASE s = "0.9" -> 90
      [] s = "75"  -> 7500
      [] s = "1.5" -> 150
      [] OTHER     -> 0
StrInteger(s) ==
    CASE s = "75" -> 75
      [] OTHER    -> 0

\* Truncation toward zero of h hundredths: int(75.9) = 75, int(-0.5) = 0.
TruncHundredths(h) == IF h >= 0 THEN h \div 100 ELSE -((-h) \div 100)

\* float(v): [ok, kind, h]; ok = FALSE when float() raises.
PyFloat(v) ==
    CASE v.t = "int"   -> [ok |-> TRUE, kind |-> "num", h |-> v.n * 100]
      [] v.t = "bool"  -> [ok |-> TRUE, kind |-> "num", h |-> v.n * 100]
      [] v.t = "float" -> [ok |-> TRUE, kind |-> "num", h |-> v.n]
      [] v.t = "nan"   -> [ok |-> TRUE, kind |-> "nan", h |-> 0]
      [] v.t = "inf"   -> [ok |-> TRUE, kind |-> "inf", h |-> v.n]
      [] v.t = "str" /\ v.s \in FloatStrings
                       -> [ok |-> TRUE, kind |-> "num", h |-> StrHundredths(v.s)]
      [] OTHER         -> [ok |-> FALSE, kind |-> "num", h |-> 0]

\* int(v): [ok, n]; ok = FALSE when int() raises (ValueError, TypeError,
\* OverflowError for an infinity, ValueError for a NaN).
PyInt(v) ==
    CASE v.t = "int"   -> [ok |-> TRUE, n |-> v.n]
      [] v.t = "bool"  -> [ok |-> TRUE, n |-> v.n]
      [] v.t = "float" -> [ok |-> TRUE, n |-> TruncHundredths(v.n)]
      [] v.t = "str" /\ v.s \in IntStrings
                       -> [ok |-> TRUE, n |-> StrInteger(v.s)]
      [] OTHER         -> [ok |-> FALSE, n |-> 0]

PyMin(a, b) == IF b < a THEN b ELSE a
PyMax(a, b) == IF b > a THEN b ELSE a

-----------------------------------------------------------------------------
(* PRClassifier                                                            *)

valid_classifications ==
    { "Ready to Merge", "Needs Architecture Discussion", "Needs Minor Fixes",
      "Needs Mentor Support", "Needs Maintainer Decision", "Blocked/Stale" }

DefaultConfidence == 50      \* 0.5
DefaultPriority   == 50
FallbackConfidence == 30     \* 0.3
LargeAdditions    == 500

\* Variant: the confidence is not clamped
ClampConfidenceMissing(f) == f.h

\* max(0.0, min(1.0, confidence)) on a float() result.  min and max keep
\* their first argument unless the other compares smaller / larger, and
\* every comparison with a NaN is false.
ClampConfidence(f) ==
    CASE f.kind = "nan" -> 100
      [] f.kind = "inf" -> IF f.h > 0 THEN 100 ELSE 0
      [] OTHER          -> PyMax(0, PyMin(100, f.h))

ValidatedConfidence(v) ==
    LET f == PyFloat(Get(v, JFloat(DefaultConfidence)))
    IN  IF f.ok THEN ClampConfidence(f)
        ELSE PyMax(0, PyMin(100, DefaultConfidence))

\* Variant: 100 is clamped to 99
ValidatedPriorityBelowHundred(v) ==
    LET p == PyInt(Get(v, JInt(DefaultPriority)))
    IN  PyMax(0, PyMin(99, IF p.ok THEN p.n ELSE DefaultPriority))

ValidatedPriority(v) ==
    LET p == PyInt(Get(v, JInt(DefaultPriority)))
    IN  PyMax(0, PyMin(100, IF p.ok THEN p.n ELSE DefaultPriority))

\* Variant: any string is accepted as a classification
ValidatedClassificationAnyString(v) ==
    IF v.t = "str" THEN v.s ELSE "Needs Minor Fixes"

ValidatedClassification(v) ==
    IF v.t = "str" /\ v.s \in valid_classifications
    THEN v.s ELSE "Needs Minor Fixes"

\* The dict _validate_result returns (line 179), which is the dict it was
\* given with the five keys set: a str, a float, an int and the two texts.
AsObject(res) ==
    [ classification   |-> JStr(res.classification),
      confidence       |-> JFloat(res.confidence),
      priority_score   |-> JInt(res.priority_score),
      reasoning        |-> res.reasoning,
      suggested_action |-> res.suggested_action ]

\* _validate_result(result) for a result that is a dict
validate_result(obj) ==
    [ classification   |-> ValidatedClassification(obj.classification),
      confidence       |-> ValidatedConfidence(obj.confidence),
      priority_score   |-> ValidatedPriority(obj.priority_score),
      reasoning        |-> Get(obj.reasoning, JStr("Analysis completed")),
      suggested_action |-> Get(obj.suggested_action,
                               JStr("Review and take appropriate action")) ]

FallbackResult(c, p) ==
    [ classification   |-> c,
      confidence       |-> FallbackConfidence,
      priority_score   |-> p,
      reasoning        |-> JStr("Fallback classification due to analysis error"),
      suggested_action |-> JStr("Manual review recommended") ]

\* pr_data.get("mergeable", True) is False
\* Variant: every falsy value counts as false
IsFalsy(v) == ~Truthy(v)

IsFalse(v) == v = JFalse

\* Variant: the conflict is tested before the draft flag
get_fallback_classification_conflict_first(pr_data) ==
    LET is_draft      == Truthy(Get(pr_data.draft, JFalse))
        has_conflicts == IsFalse(Get(pr_data.mergeable, JTrue))
        additions     == Get(pr_data.additions, JInt(0)).n
    IN  IF has_conflicts THEN FallbackResult("Blocked/Stale", 80)
        ELSE IF is_draft THEN FallbackResult("Needs Minor Fixes", 20)
        ELSE IF additions > LargeAdditions
             THEN FallbackResult("Needs Architecture Discussion", 60)
        ELSE FallbackResult("Ready to Merge", 50)

\* _get_fallback_classification(pr_data)
get_fallback_classification(pr_data) ==
    LET is_draft      == Truthy(Get(pr_data.draft, JFalse))
        has_conflicts == IsFalse(Get(pr_data.mergeable, JTrue))
        additions     == Get(pr_data.additions, JInt(0)).n
    IN  IF is_draft THEN FallbackResult("Needs Minor Fixes", 20)
        ELSE IF has_conflicts THEN FallbackResult("Blocked/Stale", 80)
        ELSE IF additions > LargeAdditions
             THEN FallbackResult("Needs Architecture Discussion", 60)
        ELSE FallbackResult("Ready to Merge", 50)


\* pr_data: the keys of the pull-request dict the code reads.  full_name is
\* pr_data["head"]["repo"]["full_name"], user_login is pr_data["user"]["login"];
\* Absent stands for a key missing on the path.
PrData(number, id, full_name, title, body, user_login, state, draft, mergeable, additions) ==
    [ number |-> number, id |-> id, full_name |-> full_name, title |-> title,
      body |-> body, user_login |-> user_login, state |-> state,
      draft |-> draft, mergeable |-> mergeable, additions |-> additions,
      deletions |-> JInt(0), changed_files |-> JInt(0), commits |-> JInt(0) ]

\* The value the caller passes as pr_context.
\*   kind "none"       None
\*   kind "dict"       a dict holding the keys that are not Absent
\*   kind "coroutine"  the coroutine object that calling the async method
\*                     get_pr_context without awaiting it yields
Context(kind, mergeable, ci_status, review_count, author_contributions, days_since_created, has_conflicts) ==
    [ kind |-> kind, mergeable |-> mergeable, ci_status |-> ci_status,
      review_count |-> review_count,
      author_contributions |-> author_contributions,
      days_since_created |-> days_since_created,
      has_conflicts |-> has_conflicts ]

NoContext        == Context("none", Absent, Absent, Absent, Absent, Absent, Absent)
EmptyContext     == Context("dict", Absent, Absent, Absent, Absent, Absent, Absent)
CoroutineContext == Context("coroutine", Absent, Absent, Absent, Absent, Absent, Absent)
\* the dict the body of get_pr_context builds (github_client.py:65-71)
MvpContext       == Context("dict", Absent, JStr("unknown"), JInt(0), JInt(0),
                            JInt(0), JFalse)
ConflictContext  == Context("dict", JFalse, JStr("failure"), JInt(2), Absent,
                            JInt(20), Absent)

ContextKeys(c) ==
    { c.mergeable, c.ci_status, c.review_count, c.author_contributions,
      c.days_since_created, c.has_conflicts } \ {Absent}

\* bool(pr_context): None and {} are falsy, any other object is truthy
ContextTruthy(c) ==
    CASE c.kind = "none" -> FALSE
      [] c.kind = "dict" -> ContextKeys(c) # {}
      [] OTHER           -> TRUE

\* pr_context has a .get method
ContextHasGet(c) == c.kind = "dict"

\* x or "" for the body
OrEmpty(v) == IF Truthy(v) THEN v ELSE JStr("")

BasicInfo(pr_data) ==
    [ title                |-> Get(pr_data.title, JStr("")),
      description          |-> OrEmpty(Get(pr_data.body, JStr(""))),
      author               |-> Get(pr_data.user_login, JStr("")),
      state                |-> Get(pr_data.state, JStr("")),
      draft                |-> Get(pr_data.draft, JFalse),
      additions            |-> Get(pr_data.additions, JInt(0)),
      deletions            |-> Get(pr_data.deletions, JInt(0)),
      changed_files        |-> Get(pr_data.changed_files, JInt(0)),
      commits              |-> Get(pr_data.commits, JInt(0)),
      has_conflicts        |-> Absent,
      ci_status            |-> Absent,
      review_count         |-> Absent,
      author_contributions |-> Absent,
      days_since_created   |-> Absent ]

\* _prepare_pr_data(pr_data, pr_context): [ok, data]; ok = FALSE when it
\* raises (AttributeError on pr_context.get).
prepare_pr_data(pr_data, pr_context) ==
    IF ~ContextTruthy(pr_context)
    THEN [ok |-> TRUE, data |-> BasicInfo(pr_data)]
    ELSE IF ~ContextHasGet(pr_context)
    THEN [ok |-> FALSE, data |-> BasicInfo(pr_data)]
    ELSE [ok |-> TRUE, data |->
            [ BasicInfo(pr_data) EXCEPT
                !.has_conflicts =
                    IF IsFalse(Get(pr_context.mergeable, JTrue))
                    THEN JTrue ELSE JFalse,
                !.ci_status = Get(pr_context.ci_status, JStr("unknown")),
                !.review_count = Get(pr_context.review_count, JInt(0)),
                !.author_contributions =
                    Get(pr_context.author_contributions, JInt(0)),
                !.days_since_created =
                    Get(pr_context.days_since_created, JInt(0)) ]]

\* _create_classification_prompt: the context lines of the prompt, with the
\* defaults it prints for a key the prepared data does not have.
create_classification_prompt(data) ==
    [ author_contributions |-> Get(data.author_contributions, JStr("Unknown")),
      has_conflicts        |-> Get(data.has_conflicts, JFalse),
      ci_status            |-> Get(data.ci_status, JStr("Unknown")),
      review_count         |-> Get(data.review_count, JInt(0)),
      days_since_created   |-> Get(data.days_since_created, JInt(0)) ]

\* The reasoning service's answer to one chat.completions.create call.
\*   kind "raises"       the call raises (network, auth, timeout, no choice)
\*   kind "unparseable"  json.loads(content) raises
\*   kind "nonobject"    json.loads(content) is a list, a number, a string
\*                       or null, so result.get raises
\*   kind "object"       json.loads(content) is the dict obj; an empty or
\*                       null content is read as "{}"
ResultObject(classification, confidence, priority_score, reasoning, suggested_action) ==
    [ classification |-> classification, confidence |-> confidence,
      priority_score |-> priority_score, reasoning |-> reasoning,
      suggested_action |-> suggested_action ]

EmptyObject == ResultObject(Absent, Absent, Absent, Absent, Absent)

Service(kind, obj) == [kind |-> kind, obj |-> obj]
ServiceRaises      == Service("raises", EmptyObject)
ServiceUnparseable == Service("unparseable", EmptyObject)
ServiceNonObject   == Service("nonobject", EmptyObject)

NoResult ==
    [ classification |-> "", confidence |-> 0, priority_score |-> 0,
      reasoning |-> Absent, suggested_action |-> Absent ]

Returned(r) == [status |-> "returned", result |-> r, called |-> TRUE]
Raised      == [status |-> "raised", result |-> NoResult, called |-> FALSE]
Pending     == [status |-> "pending", result |-> NoResult, called |-> FALSE]

\* classify_pr(pr_data, pr_context) with the reasoning service answering
\* svc.  _prepare_pr_data and _create_classification_prompt run before the
\* try block: what they raise leaves classify_pr.  Everything from the
\* service call to _validate_result is inside it and ends in the fallback.
classify_pr(pr_data, pr_context, svc) ==
    IF ~prepare_pr_data(pr_data, pr_context).ok THEN Raised
    ELSE IF svc.kind = "object" THEN Returned(validate_result(svc.obj))
    ELSE Returned(get_fallback_classification(pr_data))

-----------------------------------------------------------------------------
(* The calls of the classifier under test (SpecClassify).                  *)

DraftValues     == {Absent, JTrue, JFalse, JNull}
MergeableValues == {Absent, JTrue, JFalse, JNull}
AdditionsValues == {Absent, JInt(0), JInt(10), JInt(500), JInt(501), JInt(600)}

SignalPrData ==
    { PrData(JInt(1), JInt(101), JStr("o/r"), JStr("title"), JStr("body"),
             JStr("dev"), JStr("open"), dr, mg, ad) :
        dr \in DraftValues, mg \in MergeableValues, ad \in AdditionsValues }

PlainPrData ==
    PrData(JInt(1), JInt(101), JStr("o/r"), JStr("title"), JStr("body"),
           JStr("dev"), JStr("open"), JFalse, JTrue, JInt(10))

ContextValues ==
    {NoContext, EmptyContext, MvpContext, ConflictContext, CoroutineContext}

ClassificationValues ==
    {JStr(c) : c \in valid_classifications}
        \cup {Absent, JNull, JStr("ready to merge"), JStr("Approved"),
              JInt(1), JList}
ConfidenceValues ==
    { Absent, JNull, JFloat(85), JFloat(0), JFloat(100), JFloat(150),
      JFloat(-20), JInt(1), JInt(2), JInt(-1), JStr("0.9"), JStr("1.5"),
      JStr("high"), JTrue, JNaN, JInf(1), JInf(-1), JList }
PriorityValues ==
    { Absent, JNull, JInt(75), JInt(0), JInt(100), JInt(101), JInt(-5),
      JFloat(7590), JFloat(-50), JFloat(10050), JStr("75"), JStr("0.9"),
      JStr("high"), JTrue, JNaN, JInf(1), JList }
TextValues == {<<Absent, Absent>>, <<JStr("why"), JStr("do")>>,
               <<JNull, Absent>>}

SampleObjects ==
    { EmptyObject,
      ResultObject(JStr("Ready to Merge"), JFloat(85), JInt(75),
                   JStr("why"), JStr("do")),
      ResultObject(JStr("LGTM"), JFloat(150), JInt(-5), Absent, Absent),
      ResultObject(JList, JStr("high"), JNaN, JNull, JNull) }

ServiceOutcomes ==
    {ServiceRaises, ServiceUnparseable, ServiceNonObject}
        \cup {Service("object", o) : o \in SampleObjects}

Call(fn, pd, ctx, svc) ==
    [fn |-> fn, pr_data |-> pd, pr_context |-> ctx, svc |-> svc]
IdleCall == Call("none", PlainPrData, NoContext, ServiceRaises)

\* classify_pr(pr_data, pr_context) is called
ClassifyPr ==
    /\ cin.fn = "classify_pr"
    /\ cout.status = "pending"
    /\ cout' = classify_pr(cin.pr_data, cin.pr_context, cin.svc)
    /\ UNCHANGED <<cin, SINGLE_PROCESS, environ, get_pr_context, store, dlv,
                   classified, comments, post_pr_comment, webhook_secret, req, ret, http>>

\* _validate_result(result) is called on a parsed object
ValidateResult ==
    /\ cin.fn = "_validate_result"
    /\ cout.status = "pending"
    /\ cout' = Returned(validate_result(cin.svc.obj))
    /\ UNCHANGED <<cin, SINGLE_PROCESS, environ, get_pr_context, store, dlv,
                   classified, comments, post_pr_comment, webhook_secret, req, ret, http>>

\* _validate_result is called on the dict it returned
ValidateResultAgain ==
    /\ cin.fn = "_validate_result"
    /\ cout.status = "returned"
    /\ cout' = [ status |-> "returned twice",
                 result |-> validate_result(AsObject(cout.result)),
                 called |-> TRUE ]
    /\ UNCHANGED <<cin, SINGLE_PROCESS, environ, get_pr_context, store, dlv,
                   classified, comments, post_pr_comment, webhook_secret, req, ret, http>>

\* _get_fallback_classification(pr_data) is called
GetFallbackClassification ==
    /\ cin.fn = "_get_fallback_classification"
    /\ cout.status = "pending"
    /\ cout' = Returned(get_fallback_classification(cin.pr_data))
    /\ UNCHANGED <<cin, SINGLE_PROCESS, environ, get_pr_context, store, dlv,
                   classified, comments, post_pr_comment, webhook_secret, req, ret, http>>

-----------------------------------------------------------------------------
(* process_pull_request and the store                                      *)

MaxRetries    == 3      \* self.retry(..., max_retries=3)
NumDeliveries == 2      \* deliveries the model follows
Deliveries    == 1..NumDeliveries

\* The settings the worker reads: OPENAI_API_KEY (classifier.py:19-21) and the
\* GitHub App id and private key (github_client.py:21-30).
Environs == [OPENAI_API_KEY : BOOLEAN, GITHUB_APP : BOOLEAN]

\* get_pr_context is declared async and process_pull_request calls it without
\* awaiting it, so the call yields a coroutine object.  The dicts its body
\* returns stand for a build that runs the body; the value is fixed for a run.
GetPrContextValues == {CoroutineContext, MvpContext, EmptyContext}

\* the answers of the reasoning service the deliveries see
WorkerServiceOutcomes ==
    { ServiceRaises,
      Service("object", ResultObject(JStr("Needs Mentor Support"), JFloat(85),
                                     JInt(75), JStr("why"), JStr("do"))) }

\* A pull_requests row (database.py:36-63); id, the primary key, is the
\* position in store.
Row(pr, res) ==
    [ github_pr_id         |-> pr.id,
      repository_full_name |-> pr.full_name,
      pr_number            |-> pr.number,
      title                |-> pr.title,
      description          |-> OrEmpty(pr.body),
      author               |-> pr.user_login,
      state                |-> pr.state,
      classification       |-> res.classification,
      confidence           |-> res.confidence,
      priority_score       |-> res.priority_score,
      reasoning            |-> res.reasoning,
      suggested_action     |-> res.suggested_action ]

Rows == {store[i] : i \in 1..Len(store)}

\* Variant: the query finds no row
ExistingPrNever(pr_id) == FALSE

\* db.query(PullRequest).filter(PullRequest.github_pr_id == pr_id).first()
ExistingPr(pr_id) == \E i \in 1..Len(store) : store[i].github_pr_id = pr_id

\* Variant: the column has no unique index
UniqueViolationNever(pr_id) == FALSE

\* The unique index on github_pr_id (database.py:43): the INSERT fails when
\* a committed row holds the same non-null value.
UniqueViolation(pr_id) == pr_id # JNull /\ ExistingPr(pr_id)

\* One delivery of the task: [st, pr, direct, retries, runs, res, err].
\*   st       absent | queued | classify | commit | publish
\*            | success | skipped | failed
\*   direct   called through .run() in the request (request.called_directly)
\*   retries  request.retries
\*   runs     executions of the task body started so far
\*   res      analysis_result
\*   err      the exception the last execution ended with, "none" if none
Delivery(st, pr, direct, retries, runs, res, err) ==
    [ st |-> st, pr |-> pr, direct |-> direct, retries |-> retries,
      runs |-> runs, res |-> res, err |-> err ]

NoDelivery == Delivery("absent", PlainPrData, FALSE, 0, 0, NoResult, "none")

\* Variant: the retries stop one short
retry_one_short(r, exc) ==
    IF r.direct \/ r.retries + 1 >= MaxRetries
    THEN [r EXCEPT !.st = "failed", !.err = exc, !.res = NoResult]
    ELSE [r EXCEPT !.st = "queued", !.retries = @ + 1, !.err = exc,
                   !.res = NoResult]

\* Variant: a task called directly is sent again as well
retry_called_directly(r, exc) ==
    IF r.retries + 1 > MaxRetries
    THEN [r EXCEPT !.st = "failed", !.err = exc, !.res = NoResult]
    ELSE [r EXCEPT !.st = "queued", !.retries = @ + 1, !.err = exc,
                   !.res = NoResult]

\* except Exception: raise self.retry(exc=e, countdown=60, max_retries=3).
\* Task.retry re-raises exc at once when the task was called directly, and
\* when request.retries + 1 exceeds max_retries; otherwise it sends the task
\* again with retries + 1.
retry(r, exc) ==
    IF r.direct \/ r.retries + 1 > MaxRetries
    THEN [r EXCEPT !.st = "failed", !.err = exc, !.res = NoResult]
    ELSE [r EXCEPT !.st = "queued", !.retries = @ + 1, !.err = exc,
                   !.res = NoResult]

\* A response of the webhook endpoint: the status code and the keys of the
\* JSON body ("" , 0 or Absent for a key the body does not have); detail is
\* the detail of an HTTPException.  task_id is the id of the queued task.
NoResponse ==
    [ code |-> 0, status |-> "", reason |-> "", event_type |-> "",
      action |-> Absent, task_id |-> 0, pr_number |-> Absent,
      classification |-> "", priority_score |-> 0, message |-> "",
      detail |-> "" ]

JSONResponse(code, content) == [content EXCEPT !.code = code]
HTTPException(code, detail) ==
    [NoResponse EXCEPT !.code = code, !.detail = detail]

\* How a handler ends: it returns a response or raises an exception.
Return(resp)     == [kind |-> "return", exc |-> "none", resp |-> resp]
Raise(exc, resp) == [kind |-> "raise", exc |-> exc, resp |-> resp]

\* The except clauses of handle_github_webhook (lines 57-62), which enclose
\* the whole handler: json.JSONDecodeError becomes 400, every other
\* exception, an HTTPException raised inside the try included, becomes 500.
except_clauses(out) ==
    IF out.kind = "return" THEN out.resp
    ELSE IF out.exc = "JSONDecodeError"
    THEN HTTPException(400, "Invalid JSON")
    ELSE HTTPException(500, "Internal server error")

\* What process_pull_request returns (lines 42 and 79-84).
task_result(r) ==
    IF r.st = "skipped"
    THEN [NoResponse EXCEPT !.status = "skipped",
                            !.reason = "already_analyzed"]
    ELSE [NoResponse EXCEPT !.status = "success",
                            !.pr_number = r.pr.number,
                            !.classification = r.res.classification,
                            !.priority_score = r.res.priority_score]

\* {"status": "processed", **(result or {})}: the keys of result come last
\* and replace the keys of the literal.
processed_content(result) ==
    [result EXCEPT !.status = IF result.status = "" THEN "processed"
                              ELSE result.status]

\* The inline branch (lines 78-86 and 198-205) once .run(pr_data) is over.
inline_result(r) ==
    IF r.st = "failed"
    THEN Raise("HTTPException", HTTPException(500, "Processing failed"))
    ELSE Return(JSONResponse(200, processed_content(task_result(r))))

\* The queued branch (lines 87-99 and 206-218) after .delay(pr_data).
queued_response(task_id, action, pr_number) ==
    JSONResponse(202, [NoResponse EXCEPT !.status = "queued",
                                         !.task_id = task_id,
                                         !.action = action,
                                         !.pr_number = pr_number])

\* A delivery called in the request answers the request when it is over.
Respond(d, r) ==
    http' = IF r.direct /\ r.st \in {"success", "skipped", "failed"}
            THEN [http EXCEPT ![d] = except_clauses(inline_result(r))]
            ELSE http

\* Variant: a task that failed for good is taken again
TakenAfterFailure(r) == r.st \in {"queued", "failed"}

\* The task is waiting to be executed: sent by .delay or by self.retry, or
\* about to be called by .run.
Taken(r) == r.st = "queued"

\* lines 16-42: a worker takes the task, reads number, head.repo.full_name
\* and id, and queries the store for the id.
CheckExisting(d) ==
    /\ Taken(dlv[d])
    /\ LET r  == [dlv[d] EXCEPT !.runs = @ + 1, !.err = "none"]
           pr == r.pr
           n  == IF Absent \in {pr.number, pr.full_name, pr.id}
                 THEN retry(r, "KeyError")
                 ELSE IF ExistingPr(pr.id)
                 THEN [r EXCEPT !.st = "skipped"]
                 ELSE [r EXCEPT !.st = "classify"]
       IN  /\ dlv' = [dlv EXCEPT ![d] = n]
           /\ Respond(d, n)
    /\ UNCHANGED <<post_pr_comment, webhook_secret, req, ret, cin, cout, SINGLE_PROCESS, environ, get_pr_context, store,
                   classified, comments>>

\* lines 44-52: PRClassifier(), GitHubClient(), get_pr_context, classify_pr
Classify(d) ==
    /\ dlv[d].st = "classify"
    /\ \E svc \in WorkerServiceOutcomes :
          LET r   == dlv[d]
              out == classify_pr(r.pr, get_pr_context, svc)
          IN  IF ~environ.OPENAI_API_KEY \/ ~environ.GITHUB_APP
              THEN /\ dlv' = [dlv EXCEPT ![d] = retry(r, "ValueError")]
                   /\ Respond(d, retry(r, "ValueError"))
                   /\ UNCHANGED classified
              ELSE IF out.status = "raised"
              THEN /\ dlv' = [dlv EXCEPT ![d] = retry(r, "AttributeError")]
                   /\ Respond(d, retry(r, "AttributeError"))
                   /\ UNCHANGED classified
              ELSE /\ dlv' = [dlv EXCEPT ![d] =
                                [r EXCEPT !.st = "commit", !.res = out.result]]
                   /\ classified' = classified \cup {d}
                   /\ UNCHANGED http
    /\ UNCHANGED <<post_pr_comment, webhook_secret, req, ret, cin, cout, SINGLE_PROCESS, environ, get_pr_context, store,
                   comments>>

\* lines 54-71: build the record, db.add, db.commit
Commit(d) ==
    /\ dlv[d].st = "commit"
    /\ LET r  == dlv[d]
           pr == r.pr
       IN  IF Absent \in {pr.title, pr.body, pr.user_login, pr.state}
           THEN /\ dlv' = [dlv EXCEPT ![d] = retry(r, "KeyError")]
                /\ Respond(d, retry(r, "KeyError"))
                /\ UNCHANGED store
           ELSE IF UniqueViolation(pr.id)
           THEN /\ dlv' = [dlv EXCEPT ![d] = retry(r, "IntegrityError")]
                /\ Respond(d, retry(r, "IntegrityError"))
                /\ UNCHANGED store
           ELSE /\ store' = Append(store, Row(pr, r.res))
                /\ dlv' = [dlv EXCEPT ![d] = [r EXCEPT !.st = "publish"]]
                /\ UNCHANGED http
    /\ UNCHANGED <<post_pr_comment, webhook_secret, req, ret, cin, cout, SINGLE_PROCESS, environ, get_pr_context,
                   classified, comments>>

\* _format_analysis_comment: the header emoji and the fields the text shows;
\* the confidence is printed as a percentage with one decimal (tenths of a
\* percent here).
ClassificationEmoji(c) ==
    CASE c = "Ready to Merge"                -> "check"
      [] c = "Needs Architecture Discussion" -> "construction"
      [] c = "Needs Minor Fixes"             -> "wrench"
      [] c = "Needs Mentor Support"          -> "people"
      [] c = "Needs Maintainer Decision"     -> "thinking"
      [] c = "Blocked/Stale"                 -> "pause"
      [] OTHER                               -> "robot"

\* Variant: the comment shows no priority
format_analysis_comment_without_priority(res) ==
    [ emoji            |-> ClassificationEmoji(res.classification),
      classification   |-> res.classification,
      priority_score   |-> 0,
      confidence_pct10 |-> res.confidence * 10,
      reasoning        |-> res.reasoning,
      suggested_action |-> res.suggested_action ]

format_analysis_comment(res) ==
    [ emoji            |-> ClassificationEmoji(res.classification),
      classification   |-> res.classification,
      priority_score   |-> res.priority_score,
      confidence_pct10 |-> res.confidence * 10,
      reasoning        |-> res.reasoning,
      suggested_action |-> res.suggested_action ]

\* post_pr_comment is declared async and the task calls it without awaiting
\* it: the call yields a coroutine object and the body never runs
\* ("coroutine").  In a build that runs the body it returns True ("True"),
\* or False when posting raised ("False"); the value is fixed for a run.
PostPrCommentValues == {"coroutine", "True", "False"}

\* Variant: a failed post raises in the task
PostRaisesOnFailure(v) == v = "False"

\* Whether the call raises in the task: post_pr_comment catches every
\* exception (github_client.py:89-91) and the task discards its value.
PostRaises(v) == FALSE

\* lines 73-84: format the comment, call post_pr_comment, return success
Publish(d) ==
    /\ dlv[d].st = "publish"
    /\ comments' = comments \cup
          { [ full_name |-> dlv[d].pr.full_name,
              pr_number |-> dlv[d].pr.number,
              body      |-> format_analysis_comment(dlv[d].res) ] }
    /\ LET n == IF PostRaises(post_pr_comment)
                THEN retry(dlv[d], "Exception")
                ELSE [dlv[d] EXCEPT !.st = "success"]
       IN  /\ dlv' = [dlv EXCEPT ![d] = n]
           /\ Respond(d, n)
    /\ UNCHANGED <<post_pr_comment, webhook_secret, req, ret, cin, cout, SINGLE_PROCESS, environ, get_pr_context, store,
                   classified>>

-----------------------------------------------------------------------------
(* The dispatch of tasks (api/routes/webhooks.py)                          *)

\* payload["pull_request"] of the pull_request events the model delivers
Pr1 == PlainPrData
Pr2 == PrData(JInt(2), JInt(102), JStr("o/r"), JStr("big"), JNull,
              JStr("dev"), JStr("open"), JFalse, JNull, JInt(600))
PullRequestPayloads ==
    { Pr1, Pr2, [Pr1 EXCEPT !.number = Absent], [Pr1 EXCEPT !.title = Absent] }

\* payload["issue"] and payload["repository"]["full_name"] of the comments
\* that carry a /triage command.  Issue 1 of o/r is pull request 1; the
\* platform gives the issue an id of its own.
Issue(number, id, title, body, state, user_login, full_name, pull_request) ==
    [ number |-> number, id |-> id, title |-> title, body |-> body,
      state |-> state, user_login |-> user_login, full_name |-> full_name,
      pull_request |-> pull_request ]
Issue1 == Issue(JInt(1), JInt(201), JStr("title"), JStr("body"), JStr("open"),
                JStr("dev"), JStr("o/r"), JList)
IssuePayloads == {Issue1}

\* dict.get(key): None when the key is missing
GetNone(v) == Get(v, JNull)

\* Variant: the diff sizes are left out
triage_pr_data_without_sizes(issue) ==
    [ PrData(GetNone(issue.number), GetNone(issue.id),
             GetNone(issue.full_name), GetNone(issue.title),
             GetNone(issue.body), GetNone(issue.user_login),
             GetNone(issue.state), Absent, Absent, Absent)
      EXCEPT !.deletions = Absent, !.changed_files = Absent,
             !.commits = Absent ]

\* Variant: the task's data carries a draft flag
triage_pr_data_with_draft(issue) ==
    [ PrData(GetNone(issue.number), GetNone(issue.id),
             GetNone(issue.full_name), GetNone(issue.title),
             GetNone(issue.body), GetNone(issue.user_login),
             GetNone(issue.state), JTrue, Absent, JInt(0))
      EXCEPT !.deletions = JInt(0), !.changed_files = JInt(0),
             !.commits = JInt(0) ]

\* lines 183-196: the pr_data _handle_triage_command builds from the issue
triage_pr_data(issue) ==
    [ PrData(GetNone(issue.number), GetNone(issue.id),
             GetNone(issue.full_name), GetNone(issue.title),
             GetNone(issue.body), GetNone(issue.user_login),
             GetNone(issue.state), Absent, Absent, JInt(0))
      EXCEPT !.deletions = JInt(0), !.changed_files = JInt(0),
             !.commits = JInt(0) ]

\* the slots are taken in order
NextSlot(d) ==
    /\ dlv[d].st = "absent"
    /\ \A e \in Deliveries : e < d => dlv[e].st # "absent"

\* process_pull_request.run(pr_data) when SINGLE_PROCESS, else .delay(pr_data)
Dispatched(pr_data) ==
    Delivery("queued", pr_data, SINGLE_PROCESS, 0, 0, NoResult, "none")

\* Variant: the queued response carries no PR number
AnsweredWithoutNumber(d, action, pr_number) ==
    http' = IF SINGLE_PROCESS THEN http
            ELSE [http EXCEPT ![d] = queued_response(d, action, JNull)]

\* The inline branch answers when the call is over, the queued branch at
\* once.
Answered(d, action, pr_number) ==
    http' = IF SINGLE_PROCESS THEN http
            ELSE [http EXCEPT ![d] = queued_response(d, action, pr_number)]

\* _handle_pull_request_event on an "opened" event (lines 74-99)
HandlePullRequestEvent(d) ==
    /\ NextSlot(d)
    /\ \E p \in PullRequestPayloads :
          /\ dlv' = [dlv EXCEPT ![d] = Dispatched(p)]
          /\ Answered(d, JStr("opened"), GetNone(p.number))
    /\ UNCHANGED <<post_pr_comment, webhook_secret, req, ret, cin, cout, SINGLE_PROCESS, environ, get_pr_context, store,
                   classified, comments>>

\* _handle_triage_command on an issue that is a pull request (lines 169-218)
HandleTriageCommand(d) ==
    /\ NextSlot(d)
    /\ \E i \in IssuePayloads :
          /\ Truthy(i.pull_request)
          /\ dlv' = [dlv EXCEPT ![d] = Dispatched(triage_pr_data(i))]
          /\ Answered(d, JStr("re_analyze"), triage_pr_data(i).number)
    /\ UNCHANGED <<post_pr_comment, webhook_secret, req, ret, cin, cout, SINGLE_PROCESS, environ, get_pr_context, store,
                   classified, comments>>

-----------------------------------------------------------------------------
(* The webhook endpoint (api/routes/webhooks.py, handle_github_webhook)    *)

\* The raw body of a request, by what the handler does with its bytes:
\*   utf8   body.decode('utf-8') succeeds
\*   json   json.loads of the text succeeds
\*   value  what json.loads yields
\*   pad    bytes of trailing white space, which no step of the parse reads
Body(utf8, json, value, pad) ==
    [utf8 |-> utf8, json |-> json, value |-> value, pad |-> pad]

\* The parsed payload: object is FALSE for a JSON list, number, string or
\* null; the other fields are the keys the handlers read.  comment_body is
\* payload["comment"]["body"], a sequence of words.
Payload(object, action, pull_request, comment_body, issue) ==
    [ object |-> object, action |-> action, pull_request |-> pull_request,
      comment_body |-> comment_body, issue |-> issue ]

EmptyPrData ==
    [ PrData(Absent, Absent, Absent, Absent, Absent, Absent, Absent, Absent,
             Absent, Absent)
      EXCEPT !.deletions = Absent, !.changed_files = Absent,
             !.commits = Absent ]
EmptyIssue == Issue(Absent, Absent, Absent, Absent, Absent, Absent, Absent,
                    Absent)
NoPayload  == Payload(FALSE, Absent, EmptyPrData, << >>, EmptyIssue)

\* hmac.new(key, msg, hashlib.sha256).hexdigest(): lower-case hex text.  The
\* digest is a function of (key, msg) that no two pairs share.
hexdigest(key, msg) ==
    [kind |-> "digest", key |-> key, msg |-> msg, upper |-> FALSE]
NoHex == [kind |-> "none", key |-> "", msg |-> Body(TRUE, FALSE, NoPayload, 0),
          upper |-> FALSE]

\* The text of the X-Hub-Signature-256 header: a scheme tag followed by hex
\* text; ascii is FALSE when the text holds a character outside ASCII.
Signature(ascii, scheme, hex) ==
    [ascii |-> ascii, scheme |-> scheme, hex |-> hex]
\* request.headers.get("X-Hub-Signature-256", "") without the header
EmptySignature == Signature(TRUE, "", NoHex)

\* 'sha256=' + hmac.new(secret, payload, sha256).hexdigest()  (lines 104-108)
expected_signature(secret, payload) ==
    Signature(TRUE, "sha256=", hexdigest(secret, payload))

\* Variant: every signature is accepted
verify_webhook_signature_always(secret, payload, signature) == TRUE

\* Variant: only the hex text is compared
verify_webhook_signature_any_scheme(secret, payload, signature) ==
    IF ~Truthy(secret) THEN TRUE
    ELSE IF ~signature.ascii THEN FALSE
    ELSE signature.hex = expected_signature(secret.s, payload).hex

\* Variant: a missing secret is a computation error
verify_webhook_signature_no_skip(secret, payload, signature) ==
    IF ~Truthy(secret) THEN FALSE
    ELSE IF ~signature.ascii THEN FALSE
    ELSE signature = expected_signature(secret.s, payload)

\* GitHubClient.verify_webhook_signature (github_client.py:93-114).  A secret
\* that is None or "" skips the check.  hmac.compare_digest raises TypeError
\* on a str with a non-ASCII character; the except clause returns False.
verify_webhook_signature(secret, payload, signature) ==
    IF ~Truthy(secret) THEN TRUE
    ELSE IF ~signature.ascii THEN FALSE
    ELSE signature = expected_signature(secret.s, payload)

\* The words of a comment; "\n" is the line break.
Mention == "@prcopilot"
Words   == { "@prcopilot", "@PRCoPilot", "/triage", "/TRIAGE", "/help",
             "/Help", "please", "\n" }

\* str.lower(), word by word
LowerWord(w) ==
    CASE w = "@PRCoPilot" -> "@prcopilot"
      [] w = "/TRIAGE"    -> "/triage"
      [] w = "/Help"      -> "/help"
      [] OTHER            -> w
lower(text) == [i \in 1..Len(text) |-> LowerWord(text[i])]

\* word in text
In(w, text) == \E i \in 1..Len(text) : text[i] = w

\* str.split('\n')
RECURSIVE split(_)
split(text) ==
    IF ~In("\n", text) THEN <<text>>
    ELSE LET i == CHOOSE k \in 1..Len(text) :
                    /\ text[k] = "\n"
                    /\ \A j \in 1..(k - 1) : text[j] # "\n"
         IN  <<SubSeq(text, 1, i - 1)>>
                 \o split(SubSeq(text, i + 1, Len(text)))

\* the for loop of _parse_bot_command (lines 158-166)
RECURSIVE scan_lines(_)
scan_lines(lines) ==
    IF lines = << >> THEN "null"
    ELSE LET line == Head(lines)
         IN  IF In(Mention, line) /\ In("/triage", line) THEN "triage"
             ELSE IF In(Mention, line) /\ In("/help", line) THEN "help"
             ELSE scan_lines(Tail(lines))

\* Variant: the body is searched as one line
parse_bot_command_one_line(comment_body) ==
    scan_lines(<<lower(comment_body)>>)

\* _parse_bot_command (lines 153-166): "triage", "help" or "null" (None)
parse_bot_command(comment_body) ==
    scan_lines(split(lower(comment_body)))

\* A handler hands a task to process_pull_request (.run or .delay).
Dispatch(action, pr_data) ==
    [ kind |-> "dispatch", exc |-> "none",
      resp |-> [NoResponse EXCEPT !.action = action], pr_data |-> pr_data ]

Ignored(key, value) ==
    Return(JSONResponse(200,
        CASE key = "event_type" ->
                 [NoResponse EXCEPT !.status = "ignored", !.event_type = value]
          [] key = "action" ->
                 [NoResponse EXCEPT !.status = "ignored", !.action = value]
          [] OTHER ->
                 [NoResponse EXCEPT !.status = "ignored", !.reason = value]))

\* Variant: every action is processed
handle_pull_request_event_any_action(payload) ==
    Dispatch(GetNone(payload.action), Get(payload.pull_request, EmptyPrData))

\* _handle_pull_request_event (lines 65-105) up to the dispatch
handle_pull_request_event(payload) ==
    LET action  == GetNone(payload.action)
        pr_data == Get(payload.pull_request, EmptyPrData)
    IN  IF action \in {JStr("opened"), JStr("synchronize")}
        THEN Dispatch(action, pr_data)
        ELSE Ignored("action", action)

\* Variant: the issue is not checked to be a pull request
handle_triage_command_any_issue(payload) ==
    Dispatch(JStr("re_analyze"),
             triage_pr_data(Get(payload.issue, EmptyIssue)))

\* _handle_triage_command (lines 169-218) up to the dispatch
handle_triage_command(payload) ==
    LET issue == Get(payload.issue, EmptyIssue)
    IN  IF ~Truthy(issue.pull_request)
        THEN Ignored("reason", "not_a_pr")
        ELSE Dispatch(JStr("re_analyze"), triage_pr_data(issue))

\* _handle_help_command (lines 221-231)
handle_help_command ==
    Return(JSONResponse(200,
        [NoResponse EXCEPT
            !.status = "help_posted",
            !.message = "Help information would be posted as comment"]))

\* Variant: /help is handled as /triage
handle_issue_comment_event_help_as_triage(payload) ==
    LET action  == GetNone(payload.action)
        command == parse_bot_command(payload.comment_body)
    IN  IF action # JStr("created") THEN Ignored("action", action)
        ELSE IF ~In(Mention, lower(payload.comment_body))
        THEN Ignored("reason", "not_a_bot_command")
        ELSE IF command = "null" THEN Ignored("reason", "invalid_command")
        ELSE handle_triage_command(payload)

\* _handle_issue_comment_event (lines 108-150)
handle_issue_comment_event(payload) ==
    LET action  == GetNone(payload.action)
        command == parse_bot_command(payload.comment_body)
    IN  IF action # JStr("created") THEN Ignored("action", action)
        ELSE IF ~In(Mention, lower(payload.comment_body))
        THEN Ignored("reason", "not_a_bot_command")
        ELSE IF command = "null" THEN Ignored("reason", "invalid_command")
        ELSE IF command = "triage" THEN handle_triage_command(payload)
        ELSE IF command = "help" THEN handle_help_command
        ELSE Ignored("reason", "unknown_command")

\* lines 48-55: the handler chosen by the X-GitHub-Event header
route(event_type, payload) ==
    IF event_type = "pull_request" THEN handle_pull_request_event(payload)
    ELSE IF event_type = "issue_comment"
    THEN handle_issue_comment_event(payload)
    ELSE Ignored("event_type", event_type)

\* A call under test: handle_github_webhook on a request (body, signature
\* and event-type header), verify_webhook_signature on a body and a
\* signature, or _parse_bot_command on a comment.
WebhookCall(fn, body, signature, event_type, text) ==
    [ fn |-> fn, body |-> body, signature |-> signature,
      event_type |-> event_type, text |-> text ]
NoRequest ==
    WebhookCall("none", Body(TRUE, FALSE, NoPayload, 0), EmptySignature, "",
                << >>)

NoReturn    == [status |-> "pending", value |-> ""]
Returns(v)  == [status |-> "returned", value |-> v]

\* The try block of handle_github_webhook (lines 28-55).  GitHubClient()
\* raises ValueError without the App settings; the 401 is raised inside the
\* try block; body.decode raises UnicodeDecodeError; json.loads raises
\* JSONDecodeError; payload.get raises AttributeError on a non-object.
handle_github_webhook_try(r) ==
    IF ~environ.GITHUB_APP THEN Raise("ValueError", NoResponse)
    ELSE IF ~verify_webhook_signature(webhook_secret, r.body, r.signature)
    THEN Raise("HTTPException", HTTPException(401, "Invalid signature"))
    ELSE IF ~r.body.utf8 THEN Raise("UnicodeDecodeError", NoResponse)
    ELSE IF ~r.body.json THEN Raise("JSONDecodeError", NoResponse)
    ELSE IF ~r.body.value.object THEN Raise("AttributeError", NoResponse)
    ELSE route(r.event_type, r.body.value)

\* handle_github_webhook (lines 22-62) on the request req.  A dispatch in
\* Queued mode is answered at once; in Inline mode the task body runs in the
\* request and the delivery answers when it is over.
HandleGithubWebhook(d) ==
    /\ req.fn = "handle_github_webhook"
    /\ NextSlot(d)
    /\ LET out == handle_github_webhook_try(req)
       IN  IF out.kind = "dispatch"
           THEN /\ dlv' = [dlv EXCEPT ![d] = Dispatched(out.pr_data)]
                /\ Answered(d, out.resp.action, GetNone(out.pr_data.number))
           ELSE /\ http' = [http EXCEPT ![d] = except_clauses(out)]
                /\ UNCHANGED dlv
    /\ req' = [req EXCEPT !.fn = "handled"]
    /\ UNCHANGED <<cin, cout, SINGLE_PROCESS, environ, get_pr_context, store,
                   classified, comments, post_pr_comment, webhook_secret, ret>>

\* verify_webhook_signature(body, signature) is called
VerifyWebhookSignature ==
    /\ req.fn = "verify_webhook_signature"
    /\ ret = NoReturn
    /\ ret' = Returns(IF verify_webhook_signature(webhook_secret, req.body,
                                                  req.signature)
                      THEN "true" ELSE "false")
    /\ UNCHANGED <<cin, cout, SINGLE_PROCESS, environ, get_pr_context, store,
                   dlv, classified, comments, post_pr_comment, webhook_secret, req, http>>

\* _parse_bot_command(comment_body) is called
ParseBotCommand ==
    /\ req.fn = "_parse_bot_command"
    /\ ret = NoReturn
    /\ ret' = Returns(parse_bot_command(req.text))
    /\ UNCHANGED <<cin, cout, SINGLE_PROCESS, environ, get_pr_context, store,
                   dlv, classified, comments, post_pr_comment, webhook_secret, req, http>>

-----------------------------------------------------------------------------
(* Specifications                                                          *)

Init ==
    /\ cin = IdleCall
    /\ cout = Pending
    /\ SINGLE_PROCESS \in BOOLEAN
    /\ environ \in Environs
    /\ get_pr_context \in GetPrContextValues
    /\ store = << >>
    /\ dlv = [d \in Deliveries |-> NoDelivery]
    /\ classified = {}
    /\ comments = {}
    /\ webhook_secret = JNull
    /\ post_pr_comment = "coroutine"
    /\ req = NoRequest
    /\ ret = NoReturn
    /\ http = [d \in Deliveries |-> NoResponse]

Next ==
    \E d \in Deliveries :
        \/ HandlePullRequestEvent(d)
        \/ HandleTriageCommand(d)
        \/ CheckExisting(d)
        \/ Classify(d)
        \/ Commit(d)
        \/ Publish(d)

Spec == Init /\ [][Next]_vars

\* The workers execute every task they are given and every execution runs
\* to its end: the next step of each delivery is eventually taken.
Fairness ==
    \A d \in Deliveries :
        WF_vars(CheckExisting(d) \/ Classify(d) \/ Commit(d) \/ Publish(d))

\* The deployment with a broker and workers (SINGLE_PROCESS unset) and both
\* settings present; get_pr_context yields the coroutine object of the call
\* that is not awaited, or the dict its body returns.
InitFair ==
    /\ Init
    /\ ~SINGLE_PROCESS
    /\ environ = [OPENAI_API_KEY |-> TRUE, GITHUB_APP |-> TRUE]
    /\ get_pr_context \in {CoroutineContext, MvpContext}

FairSpec == InitFair /\ [][Next]_vars /\ Fairness

\* The calls drawn: classify_pr on every signal, context and kind of
\* answer; classify_pr, _validate_result on every parsed object;
\* _get_fallback_classification on every signal.
ClassifierCall(c) ==
    \/ \E pd \in SignalPrData, ctx \in ContextValues, svc \in ServiceOutcomes :
          c = Call("classify_pr", pd, ctx, svc)
    \/ \E cl \in ClassificationValues, f \in ConfidenceValues,
          p \in PriorityValues, t \in TextValues :
          LET o == ResultObject(cl, f, p, t[1], t[2])
          IN  \/ \E ctx \in {NoContext, CoroutineContext} :
                    c = Call("classify_pr", PlainPrData, ctx,
                             Service("object", o))
              \/ c = Call("_validate_result", PlainPrData, NoContext,
                          Service("object", o))
    \/ \E pd \in SignalPrData :
          c = Call("_get_fallback_classification", pd, NoContext,
                   ServiceRaises)

InitClassify ==
    /\ ClassifierCall(cin)
    /\ cout = Pending
    /\ SINGLE_PROCESS = FALSE
    /\ environ = [OPENAI_API_KEY |-> TRUE, GITHUB_APP |-> TRUE]
    /\ get_pr_context = CoroutineContext
    /\ store = << >>
    /\ dlv = [d \in Deliveries |-> NoDelivery]
    /\ classified = {}
    /\ comments = {}
    /\ webhook_secret = JNull
    /\ post_pr_comment = "coroutine"
    /\ req = NoRequest
    /\ ret = NoReturn
    /\ http = [d \in Deliveries |-> NoResponse]

NextClassify ==
    \/ ClassifyPr
    \/ ValidateResult
    \/ ValidateResultAgain
    \/ GetFallbackClassification

SpecClassify == InitClassify /\ [][NextClassify]_vars

\* The requests drawn for the webhook endpoint.
MaxWords == 4       \* words in a comment given to _parse_bot_command
Secrets  == {JNull, JStr(""), JStr("k1"), JStr("k2")}

NonUtf8Body   == Body(FALSE, FALSE, NoPayload, 0)
NotJsonBody   == Body(TRUE, FALSE, NoPayload, 0)
NonObjectBody == Body(TRUE, TRUE, NoPayload, 0)
ObjectBody(payload) == Body(TRUE, TRUE, payload, 0)

PlainIssue == [Issue1 EXCEPT !.pull_request = Absent]
CommentTexts ==
    { <<"please">>, <<"@PRCoPilot", "/triage">>, <<"@prcopilot", "/Help">>,
      <<"@prcopilot", "please">>, <<"@prcopilot", "\n", "/triage">> }

PullRequestEvents ==
    { Payload(TRUE, a, p, << >>, Absent) :
        a \in {JStr("opened"), JStr("synchronize"), JStr("closed"), Absent},
        p \in {Pr1, [Pr1 EXCEPT !.number = Absent], Absent} }
IssueCommentEvents ==
    { Payload(TRUE, a, Absent, t, i) :
        a \in {JStr("created"), JStr("edited"), Absent},
        t \in CommentTexts,
        i \in {Issue1, PlainIssue, [Issue1 EXCEPT !.number = Absent]} }
OtherEvents == {Payload(TRUE, JStr("created"), Absent, << >>, Absent)}

\* the signature headers tried on a body
Signatures(b) ==
    { EmptySignature,
      expected_signature("k1", b),
      expected_signature("k2", b),
      expected_signature("k1", [b EXCEPT !.pad = 1 - @]),
      Signature(TRUE, "sha1=", hexdigest("k1", b)),
      Signature(TRUE, "", hexdigest("k1", b)),
      Signature(TRUE, "sha256=", [hexdigest("k1", b) EXCEPT !.upper = TRUE]),
      Signature(TRUE, "sha256=", NoHex),
      Signature(FALSE, "sha256=", hexdigest("k1", b)) }

VerifyBodies ==
    { NonUtf8Body, NotJsonBody,
      ObjectBody(Payload(TRUE, JStr("opened"), Pr1, << >>, Absent)),
      [ObjectBody(Payload(TRUE, JStr("opened"), Pr1, << >>, Absent))
          EXCEPT !.pad = 1] }

Texts == UNION {[1..n -> Words] : n \in 0..MaxWords}

WebhookInput(secret, r) ==
    \/ \E b \in VerifyBodies, k \in Secrets : \E sig \in Signatures(b) :
          /\ secret = k
          /\ r = WebhookCall("verify_webhook_signature", b, sig, "", << >>)
    \/ \E t \in Texts :
          /\ secret = JNull
          /\ r = WebhookCall("_parse_bot_command", NotJsonBody,
                             EmptySignature, "", t)
    \/ \E k \in {JNull, JStr("k1")} :
          /\ secret = k
          /\ \/ \E b \in {NonUtf8Body, NotJsonBody, NonObjectBody} :
                   \E sig \in {EmptySignature, expected_signature("k1", b)} :
                   r = WebhookCall("handle_github_webhook", b, sig,
                                   "pull_request", << >>)
             \/ \E p \in PullRequestEvents :
                   \E sig \in {EmptySignature,
                               expected_signature("k1", ObjectBody(p)),
                               expected_signature("k2", ObjectBody(p))} :
                      r = WebhookCall("handle_github_webhook", ObjectBody(p),
                                      sig, "pull_request", << >>)
             \/ \E p \in IssueCommentEvents :
                   \E sig \in {EmptySignature,
                               expected_signature("k1", ObjectBody(p))} :
                      r = WebhookCall("handle_github_webhook", ObjectBody(p),
                                      sig, "issue_comment", << >>)
             \/ \E p \in OtherEvents, e \in {"push", "ping", ""} :
                   \E sig \in {EmptySignature,
                               expected_signature("k1", ObjectBody(p))} :
                      r = WebhookCall("handle_github_webhook", ObjectBody(p),
                                      sig, e, << >>)

InitWebhook ==
    /\ WebhookInput(webhook_secret, req)
    /\ IF req.fn = "handle_github_webhook"
       THEN post_pr_comment \in PostPrCommentValues
       ELSE post_pr_comment = "coroutine"
    /\ cin = IdleCall
    /\ cout = Pending
    /\ IF req.fn = "handle_github_webhook"
       THEN /\ SINGLE_PROCESS \in BOOLEAN
            /\ environ \in Environs
            /\ get_pr_context \in GetPrContextValues
       ELSE /\ SINGLE_PROCESS = FALSE
            /\ environ = [OPENAI_API_KEY |-> TRUE, GITHUB_APP |-> TRUE]
            /\ get_pr_context = CoroutineContext
    /\ store = << >>
    /\ dlv = [d \in Deliveries |-> NoDelivery]
    /\ classified = {}
    /\ comments = {}
    /\ ret = NoReturn
    /\ http = [d \in Deliveries |-> NoResponse]

NextWebhook ==
    \/ VerifyWebhookSignature
    \/ ParseBotCommand
    \/ \E d \in Deliveries :
          \/ HandleGithubWebhook(d)
          \/ CheckExisting(d)
          \/ Classify(d)
          \/ Commit(d)
          \/ Publish(d)

SpecWebhook == InitWebhook /\ [][NextWebhook]_vars

-----------------------------------------------------------------------------
(* Properties                                                              *)

Present(d)  == dlv[d].st # "absent"
\* the store holds a row for the platform PR id
HasRow(pr_id) == \E row \in Rows : row.github_pr_id = pr_id
Terminal(d) == dlv[d].st \in {"success", "skipped", "failed"}
\* the fields process_pull_request reads before it queries the store
Identified(d) == Absent \notin {dlv[d].pr.number, dlv[d].pr.full_name, dlv[d].pr.id}
\* every key process_pull_request reads is in the task's data
WellFormed(d) ==
    Absent \notin { dlv[d].pr.number, dlv[d].pr.full_name, dlv[d].pr.id,
                    dlv[d].pr.title, dlv[d].pr.body, dlv[d].pr.user_login,
                    dlv[d].pr.state }
\* the settings are present and get_pr_context yields a dict
Healthy ==
    /\ environ.OPENAI_API_KEY
    /\ environ.GITHUB_APP
    /\ get_pr_context.kind = "dict"

C2_AtMostOneRowPerPrId ==
    \A i, j \in 1..Len(store) :
        (store[i].github_pr_id # JNull
            /\ store[i].github_pr_id = store[j].github_pr_id) => i = j

\* C2 witness: two deliveries for one PR id raced into the insert; one
\* committed the row, the other was sent again and then skipped.
C2_Witness ==
    \E d, e \in Deliveries :
        /\ d # e
        /\ dlv[d].pr.id = dlv[e].pr.id
        /\ dlv[d].st = "success"
        /\ dlv[e].st = "skipped"
        /\ dlv[e].retries = 1
        /\ HasRow(dlv[d].pr.id)

StartsOnExisting(d) ==
    /\ dlv[d].st = "queued"
    /\ dlv[d].pr.id # Absent
    /\ HasRow(dlv[d].pr.id)
    /\ dlv'[d] # dlv[d]

SkipStep(d) ==
    /\ dlv'[d].st = "skipped"
    /\ store' = store
    /\ classified' = classified
    /\ comments' = comments

C5_FailsAfterThreeExecutions ==
    \A d \in Deliveries :
        ~dlv[d].direct =>
            /\ dlv[d].runs <= 3
            /\ dlv[d].st = "failed" => dlv[d].runs = 3

\* C5 (amended): a queued task is executed at most 4 times (the first
\* attempt and 3 retries); one that failed was executed exactly 4 times,
\* and a failed task takes no further step.
C5_FailsAfterFourExecutions ==
    /\ [](\A d \in Deliveries :
            ~dlv[d].direct =>
                /\ dlv[d].runs <= 4
                /\ dlv[d].st = "failed" => dlv[d].runs = 4)
    /\ [][\A d \in Deliveries :
            dlv[d].st = "failed" => dlv'[d] = dlv[d]]_vars

\* C5 witness: a queued task has failed for good after 4 executions.
C5_Witness ==
    \E d \in Deliveries :
        ~dlv[d].direct /\ dlv[d].st = "failed" /\ dlv[d].runs = 4

\* C6 (as claimed): an execution that ends with a validation failure
\* (KeyError on a missing field) or a configuration failure (ValueError of
\* a constructor) leaves the task failed after its first execution; no
\* retry is scheduled.
C6_ValidationAndAuthAreTerminal ==
    \A d \in Deliveries :
        dlv[d].err \in {"KeyError", "ValueError"}
            => dlv[d].st = "failed" /\ dlv[d].runs = 1

Ret          == cout.result
CallReturned == cout.status = "returned"

\* C7: every result classify_pr, _validate_result or
\* _get_fallback_classification returns has its classification among the six
\* categories, its confidence within [0.0, 1.0] and its priority score an
\* integer within [0, 100].
C7_ResultInRange ==
    CallReturned =>
        /\ Ret.classification \in
              { "Ready to Merge", "Needs Architecture Discussion",
                "Needs Minor Fixes", "Needs Mentor Support",
                "Needs Maintainer Decision", "Blocked/Stale" }
        /\ Ret.confidence >= 0 /\ Ret.confidence <= 100
        /\ Ret.priority_score \in 0..100

\* C7 witness: classify_pr returned on an answer whose confidence and
\* priority were out of range and whose classification was unknown.
C7_Witness ==
    /\ cin.fn = "classify_pr"
    /\ CallReturned
    /\ cin.svc.kind = "object"
    /\ cin.svc.obj.classification = JStr("Approved")
    /\ cin.svc.obj.confidence = JFloat(150)
    /\ cin.svc.obj.priority_score = JInt(-5)

\* C8 (as claimed): classify_pr never raises, whatever the signal, the
\* context and the reasoning service's answer.
C8_ClassifyNeverRaises ==
    cin.fn = "classify_pr" => cout.status # "raised"

-----------------------------------------------------------------------------
\* The fallback's inputs as the claim names them.
DraftIsTrue    == cin.pr_data.draft = JTrue
HasConflicts   == cin.pr_data.mergeable = JFalse
GivenAdditions == IF cin.pr_data.additions = Absent
                  THEN 0 ELSE cin.pr_data.additions.n
IsFallbackCall ==
    \/ cin.fn = "_get_fallback_classification"
    \/ cin.fn = "classify_pr" /\ cin.svc.kind # "object"
Verdict(c, p)  == Ret.classification = c /\ Ret.priority_score = p

\* C9: the fallback is a first-match table: draft gives (Needs Minor Fixes,
\* 20) whatever the rest; else a conflict gives (Blocked/Stale, 80) whatever
\* the additions; else more than 500 additions give (Needs Architecture
\* Discussion, 60); else, 500 included, (Ready to Merge, 50).  The
\* confidence is 0.3 in every case.
C9_FallbackDecisionTable ==
    (IsFallbackCall /\ CallReturned) =>
        /\ Ret.confidence = 30
        /\ DraftIsTrue => Verdict("Needs Minor Fixes", 20)
        /\ (~DraftIsTrue /\ HasConflicts) => Verdict("Blocked/Stale", 80)
        /\ (~DraftIsTrue /\ ~HasConflicts /\ GivenAdditions > 500)
              => Verdict("Needs Architecture Discussion", 60)
        /\ (~DraftIsTrue /\ ~HasConflicts /\ GivenAdditions <= 500)
              => Verdict("Ready to Merge", 50)

\* C9 witness: the fallback answered (Needs Minor Fixes, 20) for a draft
\* with a conflict and 600 additions.
C9_Witness ==
    /\ IsFallbackCall /\ CallReturned
    /\ DraftIsTrue /\ HasConflicts /\ GivenAdditions = 600
    /\ Verdict("Needs Minor Fixes", 20)

-----------------------------------------------------------------------------
\* The parsed object's fields as the claim names them.
IsValidateCall ==
    \/ cin.fn = "_validate_result"
    \/ cin.fn = "classify_pr" /\ cin.svc.kind = "object"
GivenObject == cin.svc.obj
Clamp(lo, hi, x) == IF x < lo THEN lo ELSE IF x > hi THEN hi ELSE x
\* strings that read as a number, with the number in hundredths
NumericStrings == {<<"0.9", 90>>, <<"75", 7500>>, <<"1.5", 150>>}
\* strings that read as an integer
IntegerStrings == {<<"75", 75>>}

\* the confidence _validate_result is to give for the value v (hundredths)
ExpectedConfidence(v, c) ==
    CASE v.t \in {"int", "bool"} -> c = Clamp(0, 100, 100 * v.n)
      [] v.t = "float"           -> c = Clamp(0, 100, v.n)
      [] v.t = "str" /\ \E q \in NumericStrings : q[1] = v.s
                                 -> \E q \in NumericStrings :
                                       q[1] = v.s /\ c = Clamp(0, 100, q[2])
      [] v.t \in {"nan", "inf"}  -> c \in 0..100
      [] OTHER                   -> c = 50

\* the priority _validate_result is to give for the value v
ExpectedPriority(v, p) ==
    CASE v.t \in {"int", "bool"} -> p = Clamp(0, 100, v.n)
      [] v.t = "float" /\ v.n >= 0 -> p = Clamp(0, 100, v.n \div 100)
      [] v.t = "float" /\ v.n < 0  -> p = 0
      [] v.t = "str" /\ \E q \in IntegerStrings : q[1] = v.s
                                 -> \E q \in IntegerStrings :
                                       q[1] = v.s /\ p = Clamp(0, 100, q[2])
      [] OTHER                   -> p = 50

\* C10: _validate_result keeps a classification that is one of the six
\* categories and replaces any other (or a missing one) by Needs Minor
\* Fixes; coerces the confidence to a number clamped to [0.0, 1.0], 0.5
\* when missing or not coercible; coerces the priority score to an integer
\* clamped to [0, 100], 50 when missing or not coercible; fills a missing
\* reasoning and suggested_action with the placeholders and keeps the
\* given ones.
C10_ValidationRules ==
    (IsValidateCall /\ CallReturned) =>
        /\ IF GivenObject.classification \in
                 { JStr("Ready to Merge"), JStr("Needs Architecture Discussion"),
                   JStr("Needs Minor Fixes"), JStr("Needs Mentor Support"),
                   JStr("Needs Maintainer Decision"), JStr("Blocked/Stale") }
           THEN Ret.classification = GivenObject.classification.s
           ELSE Ret.classification = "Needs Minor Fixes"
        /\ ExpectedConfidence(GivenObject.confidence, Ret.confidence)
        /\ ExpectedPriority(GivenObject.priority_score, Ret.priority_score)
        /\ Ret.reasoning =
              IF GivenObject.reasoning = Absent
              THEN JStr("Analysis completed") ELSE GivenObject.reasoning
        /\ Ret.suggested_action =
              IF GivenObject.suggested_action = Absent
              THEN JStr("Review and take appropriate action")
              ELSE GivenObject.suggested_action

\* C10 witness: _validate_result returned for an object with a category in
\* the wrong case, a confidence that is no number, a fractional priority
\* and no reasoning.
C10_Witness ==
    /\ cin.fn = "_validate_result"
    /\ CallReturned
    /\ GivenObject.classification = JStr("ready to merge")
    /\ GivenObject.confidence = JStr("high")
    /\ GivenObject.priority_score = JFloat(7590)
    /\ GivenObject.reasoning = Absent
    /\ Ret.classification = "Needs Minor Fixes"
    /\ Ret.confidence = 50
    /\ Ret.priority_score = 75

-----------------------------------------------------------------------------
(* Properties of the webhook endpoint                                      *)

\* a call of verify_webhook_signature / _parse_bot_command has returned
Verified == req.fn = "verify_webhook_signature" /\ ret.status = "returned"
Parsed   == req.fn = "_parse_bot_command" /\ ret.status = "returned"
\* handle_github_webhook has taken the request
Handled  == req.fn = "handled"
SecretConfigured == webhook_secret \notin {JNull, JStr("")}
\* the signature header is the scheme tag and the digest of the body under
\* the secret
SignatureMatches ==
    /\ req.signature.ascii
    /\ req.signature.scheme = "sha256="
    /\ req.signature.hex.kind = "digest"
    /\ req.signature.hex.key = webhook_secret.s
    /\ req.signature.hex.msg = req.body
    /\ ~req.signature.hex.upper
SignatureAccepted == ~SecretConfigured \/ SignatureMatches
IsJson   == req.body.utf8 /\ req.body.json
\* the request reached the routing by event type
Routed ==
    /\ Handled
    /\ environ.GITHUB_APP
    /\ SignatureAccepted
    /\ IsJson
    /\ req.body.value.object
EventAction  == GetNone(req.body.value.action)
ProcessedPullRequestEvent ==
    /\ req.event_type = "pull_request"
    /\ EventAction \in {JStr("opened"), JStr("synchronize")}
IsIgnored(resp) == resp.code = 200 /\ resp.status = "ignored"

\* C11: with a secret configured, verify_webhook_signature returns true
\* exactly when the provided signature is "sha256=" followed by the
\* lower-case hex HMAC-SHA256 digest of the raw body under the secret; a
\* signature for another body, another secret, with another scheme tag or
\* other hex text is rejected.
C11_AcceptsExactlyTheExpectedSignature ==
    (Verified /\ SecretConfigured) =>
        (ret.value = "true" <=> SignatureMatches)

\* C11 witness: with a secret configured, the signature computed for the
\* body was accepted.
C11_Witness ==
    /\ Verified
    /\ SecretConfigured
    /\ SignatureMatches
    /\ ret.value = "true"

\* C12: without a webhook secret (unset or empty) verify_webhook_signature
\* returns true for every body and signature, the empty one included, and a
\* request with a JSON object body is then routed whatever its signature:
\* it is dispatched or answered 200.
C12_NoSecretSkipsVerification ==
    /\ (Verified /\ ~SecretConfigured) => ret.value = "true"
    /\ (Handled /\ ~SecretConfigured /\ environ.GITHUB_APP /\ IsJson
            /\ req.body.value.object)
          => (Present(1) \/ http[1].code = 200)

\* C12 witness: without a secret, a request with no signature header was
\* routed and its task dispatched.
C12_Witness ==
    /\ Handled
    /\ ~SecretConfigured
    /\ req.signature = EmptySignature
    /\ Present(1)

\* C13 (as claimed): a request whose signature fails verification is
\* answered 401 and is not routed.
C13_InvalidSignatureIs401 ==
    (Handled /\ environ.GITHUB_APP /\ ~SignatureAccepted) =>
        (http[1].code = 401 /\ ~Present(1))

\* a processed event whose payload lacks number, head.repo.full_name or id
MalformedPullRequestEvent ==
    /\ ProcessedPullRequestEvent
    /\ Absent \in { Get(req.body.value.pull_request, EmptyPrData).number,
                    Get(req.body.value.pull_request, EmptyPrData).full_name,
                    Get(req.body.value.pull_request, EmptyPrData).id }
MalformedTriageCommand ==
    /\ req.event_type = "issue_comment"
    /\ EventAction = JStr("created")
    /\ \E i \in 1..Len(req.body.value.comment_body) :
          req.body.value.comment_body[i] \in {"@prcopilot", "@PRCoPilot"}
    /\ \E i \in 1..Len(req.body.value.comment_body) :
          req.body.value.comment_body[i] \in {"/triage", "/TRIAGE"}
    /\ ~In("\n", req.body.value.comment_body)
    /\ Truthy(Get(req.body.value.issue, EmptyIssue).pull_request)
    /\ Absent \in { Get(req.body.value.issue, EmptyIssue).number,
                    Get(req.body.value.issue, EmptyIssue).full_name,
                    Get(req.body.value.issue, EmptyIssue).id }

\* C14 (as claimed): a processed event whose payload lacks a field the task
\* reads (number, head.repo.full_name, id) is answered with a 4xx response
\* and no task is dispatched for it, in both dispatch modes.
C14_MalformedPayloadIs400 ==
    (Routed /\ (MalformedPullRequestEvent \/ MalformedTriageCommand))
      => /\ ~Present(1)
         /\ http[1].code \in 400..499

\* C15 (as claimed): a request whose signature is accepted and whose body
\* is not valid JSON is answered 400 and no task is dispatched.
C15_InvalidJsonIs400 ==
    (Handled /\ environ.GITHUB_APP /\ SignatureAccepted /\ ~IsJson) =>
        (http[1].code = 400 /\ ~Present(1))

\* C16: a routed pull_request event dispatches a task iff its action is
\* opened or synchronize, and is otherwise Ignored with its action; a routed
\* issue_comment event is Ignored with its action iff the action is not
\* created, and otherwise goes to the command stage (a dispatch, the help
\* answer, or an Ignored with a reason); any other event type is Ignored
\* with the event type string.
C16_RoutingByEventTypeAndAction ==
    Routed =>
        CASE req.event_type = "pull_request" ->
                 IF EventAction \in {JStr("opened"), JStr("synchronize")}
                 THEN Present(1)
                 ELSE /\ ~Present(1)
                      /\ IsIgnored(http[1])
                      /\ http[1].action = EventAction
          [] req.event_type = "issue_comment" ->
                 IF EventAction = JStr("created")
                 THEN \/ Present(1)
                      \/ http[1].code = 200 /\ http[1].status = "help_posted"
                      \/ IsIgnored(http[1]) /\ http[1].reason # ""
                 ELSE /\ ~Present(1)
                      /\ IsIgnored(http[1])
                      /\ http[1].action = EventAction
                      /\ http[1].reason = ""
          [] OTHER ->
                 /\ ~Present(1)
                 /\ IsIgnored(http[1])
                 /\ http[1].event_type = req.event_type
                 /\ http[1].action = Absent
                 /\ http[1].reason = ""

\* C16 witness: a push event was Ignored with its event type, in a world
\* where a pull_request event would be processed.
C16_Witness ==
    /\ Routed
    /\ req.event_type = "push"
    /\ IsIgnored(http[1])
    /\ http[1].event_type = "push"

\* C17: in Queued mode, from the moment a routed pull_request event with
\* action opened or synchronize is handled, exactly one task exists, it
\* carries the event's pull_request data, and the response is 202 with
\* status queued, a task id and pr_number equal to the event's number; the
\* response is there before the first execution and stays the same
\* whatever the executions do.
C17_QueuedEventIsAnswered202 ==
    (Routed /\ ProcessedPullRequestEvent /\ ~SINGLE_PROCESS) =>
        /\ dlv[1].pr = Get(req.body.value.pull_request, EmptyPrData)
        /\ ~dlv[1].direct
        /\ \A d \in Deliveries : d # 1 => ~Present(d)
        /\ http[1].code = 202
        /\ http[1].status = "queued"
        /\ http[1].task_id # 0
        /\ http[1].action = EventAction
        /\ http[1].pr_number =
               GetNone(Get(req.body.value.pull_request, EmptyPrData).number)

\* C17 witness: the task of an event answered 202 has failed for good after
\* the response.
C17_Witness ==
    /\ Routed
    /\ ProcessedPullRequestEvent
    /\ ~SINGLE_PROCESS
    /\ http[1].code = 202
    /\ dlv[1].st = "failed"
    /\ dlv[1].runs = MaxRetries + 1

C19_InlineFailureIs500 ==
    \A d \in Deliveries :
        (Present(d) /\ dlv[d].direct) =>
            /\ dlv[d].retries = 0
            /\ dlv[d].runs <= 1
            /\ ~Terminal(d) => http[d] = NoResponse
            /\ dlv[d].st = "failed" =>
                  (http[d].code = 500 /\ dlv[d].err # "none")

\* C19 witness: an inline delivery raised in its only execution and the
\* request was answered 500.
C19_Witness ==
    \E d \in Deliveries :
        /\ dlv[d].direct
        /\ dlv[d].st = "failed"
        /\ dlv[d].runs = 1
        /\ http[d].code = 500

\* The comment as the claim reads it: lines are numbered by the line breaks
\* before a word; the mention and the subcommands are matched in any case.
IsMention(w) == w \in {"@prcopilot", "@PRCoPilot"}
IsTriage(w)  == w \in {"/triage", "/TRIAGE"}
IsHelp(w)    == w \in {"/help", "/Help"}
LineOf(t, i) == Cardinality({j \in 1..(i - 1) : t[j] = "\n"})
MentionOn(t, k) == \E i \in 1..Len(t) : IsMention(t[i]) /\ LineOf(t, i) = k
TriageOn(t, k)  == \E i \in 1..Len(t) : IsTriage(t[i]) /\ LineOf(t, i) = k
HelpOn(t, k)    == \E i \in 1..Len(t) : IsHelp(t[i]) /\ LineOf(t, i) = k
Matches(t, k)   == MentionOn(t, k) /\ (TriageOn(t, k) \/ HelpOn(t, k))
ExpectedCommand(t) ==
    IF \A k \in 0..Len(t) : ~Matches(t, k) THEN "null"
    ELSE LET k == CHOOSE m \in 0..Len(t) :
                     /\ Matches(t, m)
                     /\ \A n \in 0..(m - 1) : ~Matches(t, n)
         IN  IF TriageOn(t, k) THEN "triage" ELSE "help"

\* C20: _parse_bot_command answers by the first line, from the top, that
\* holds the mention and a subcommand, in any case: triage if it holds
\* /triage, else help; null when no line holds both, the mention and the
\* subcommand on different lines included.
C20_FirstMatchingLineDecides ==
    Parsed => ret.value = ExpectedCommand(req.text)

\* C20 witness: a comment with the mention alone on the first line and an
\* upper-case mention with /Help on the second was parsed as help.
C20_Witness ==
    /\ Parsed
    /\ req.text = <<"@prcopilot", "\n", "@PRCoPilot", "/Help">>
    /\ ret.value = "help"

-----------------------------------------------------------------------------
(* Properties of the commands, the publication and the enrichment          *)

IssueCommentCreated ==
    req.event_type = "issue_comment" /\ EventAction = JStr("created")
CommentText == req.body.value.comment_body
GivenIssue  == Get(req.body.value.issue, EmptyIssue)
NoTask      == \A d \in Deliveries : ~Present(d)
\* a routed comment whose command is /triage, on an issue that is a pull
\* request
TriageCommand ==
    /\ Routed
    /\ IssueCommentCreated
    /\ ExpectedCommand(CommentText) = "triage"
    /\ Truthy(GivenIssue.pull_request)
HelpCommand ==
    /\ Routed
    /\ IssueCommentCreated
    /\ ExpectedCommand(CommentText) = "help"

\* C21: a /triage command on a pull-request issue dispatches exactly one
\* task, whose data has additions, deletions, changed_files and commits 0
\* and whose title, body, state, author and number are the issue's.
C21_TriageDispatchesDegradedSignal ==
    TriageCommand =>
        /\ Present(1)
        /\ \A d \in Deliveries : d # 1 => ~Present(d)
        /\ dlv[1].pr.additions = JInt(0)
        /\ dlv[1].pr.deletions = JInt(0)
        /\ dlv[1].pr.changed_files = JInt(0)
        /\ dlv[1].pr.commits = JInt(0)
        /\ dlv[1].pr.title = GetNone(GivenIssue.title)
        /\ dlv[1].pr.body = GetNone(GivenIssue.body)
        /\ dlv[1].pr.state = GetNone(GivenIssue.state)
        /\ dlv[1].pr.user_login = GetNone(GivenIssue.user_login)
        /\ dlv[1].pr.number = GetNone(GivenIssue.number)

\* C21 witness: the task of a /triage command on pull-request issue 1 has
\* the issue's title and number and no additions.
C21_Witness ==
    /\ TriageCommand
    /\ Present(1)
    /\ dlv[1].pr.number = JInt(1)
    /\ dlv[1].pr.title = JStr("title")
    /\ dlv[1].pr.additions = JInt(0)

\* C22: once the verdict is committed, the publishing step ends the task in
\* success whether the post succeeds or fails: it is not retried, it does
\* not fail, and the row stays in the store.
C22_PublishNeverFailsTheTask ==
    [][\A d \in Deliveries :
          (dlv[d].st = "publish" /\ dlv'[d] # dlv[d]) =>
              /\ HasRow(dlv[d].pr.id)
              /\ dlv'[d].st = "success"
              /\ dlv'[d].retries = dlv[d].retries
              /\ store' = store]_vars

\* C22 witness: in a run where posting fails, the task reported success at
\* its first execution and its row is in the store.
C22_Witness ==
    /\ post_pr_comment = "False"
    /\ dlv[1].st = "success"
    /\ dlv[1].runs = 1
    /\ HasRow(dlv[1].pr.id)

\* C23 (as claimed): the task of a pull_request event for a PR not yet
\* analyzed, with additions 10, draft false and mergeable true, never fails
\* and is never retried, and the verdict it stores from the fallback is
\* (Ready to Merge, 50, 0.3).
C23_UnreachableServiceFallsBack ==
    (Routed /\ ProcessedPullRequestEvent /\ environ.OPENAI_API_KEY
        /\ dlv[1].pr = Pr1) =>
        /\ dlv[1].st # "failed"
        /\ dlv[1].retries = 0
        /\ \A row \in Rows :
              row.confidence = FallbackConfidence =>
                  /\ row.classification = "Ready to Merge"
                  /\ row.priority_score = 50

\* C24 (as claimed): whatever get_pr_context yields, the task of a
\* well-formed pull_request event ends in success with its verdict stored,
\* and the context values the prompt shows for the fields the context does
\* not have are "unknown", 0, 0, 0 and false.
C24_EnrichmentNeverBlocks ==
    (Routed /\ ProcessedPullRequestEvent /\ environ.OPENAI_API_KEY
        /\ WellFormed(1)) =>
        /\ Terminal(1) => (dlv[1].st = "success" /\ HasRow(dlv[1].pr.id))
        /\ LET p == create_classification_prompt(
                        prepare_pr_data(dlv[1].pr, get_pr_context).data)
           IN  /\ get_pr_context.ci_status = Absent
                    => p.ci_status = JStr("unknown")
               /\ get_pr_context.review_count = Absent
                    => p.review_count = JInt(0)
               /\ get_pr_context.author_contributions = Absent
                    => p.author_contributions = JInt(0)
               /\ get_pr_context.days_since_created = Absent
                    => p.days_since_created = JInt(0)
               /\ get_pr_context.mergeable = Absent
                    => p.has_conflicts = JFalse

C26_CheckAndInsertAreAtomic ==
    \A d, e \in Deliveries :
        (d # e /\ Present(d) /\ Present(e) /\ dlv[d].pr.id = dlv[e].pr.id) =>
            ~(/\ dlv[d].st \in {"classify", "commit"}
              /\ dlv[e].st \in {"classify", "commit"})

\* C27: when the publishing step is about to run or has run for a delivery,
\* the store holds the row for its PR id with the delivery's verdict, and
\* every comment posted carries the classification, priority and confidence
\* of a stored row of its pull request.
C27_PersistenceBeforePublication ==
    /\ \A d \in Deliveries :
          dlv[d].st \in {"publish", "success"} =>
              \E row \in Rows :
                  /\ row.github_pr_id = dlv[d].pr.id
                  /\ row.classification = dlv[d].res.classification
                  /\ row.priority_score = dlv[d].res.priority_score
                  /\ row.confidence = dlv[d].res.confidence
    /\ \A c \in comments :
          \E row \in Rows :
              /\ row.repository_full_name = c.full_name
              /\ row.pr_number = c.pr_number
              /\ row.classification = c.body.classification
              /\ row.priority_score = c.body.priority_score
              /\ row.confidence * 10 = c.body.confidence_pct10

\* C27 witness: a comment with the service's verdict (priority 75) was
\* posted and the row of its pull request holds that verdict.
C27_Witness ==
    \E c \in comments, row \in Rows :
        /\ row.repository_full_name = c.full_name
        /\ row.pr_number = c.pr_number
        /\ c.body.priority_score = 75
        /\ row.priority_score = 75

\* C28: with a secret configured, a request whose signature is rejected is
\* not parsed (no 400 for its JSON), not routed (no 200) and not dispatched
\* (no 202, no task, no row, no classification), a malformed body included;
\* so every task stems from a request whose signature was accepted.
C28_SignatureGatesEverything ==
    /\ (Handled /\ SecretConfigured /\ ~SignatureMatches) =>
          /\ NoTask
          /\ http[1].code \notin {200, 202, 400}
          /\ store = << >>
          /\ classified = {}
    /\ (Handled /\ ~NoTask) => SignatureAccepted

\* C28 witness: a request with a rejected signature and a body that is not
\* JSON was turned away without a 400.
C28_Witness ==
    /\ Handled
    /\ environ.GITHUB_APP
    /\ SecretConfigured
    /\ ~SignatureMatches
    /\ ~IsJson
    /\ http[1].code # 0
    /\ NoTask

\* the routed events that are filtered out
Filtered ==
    /\ Routed
    /\ \/ req.event_type = "pull_request"
          /\ EventAction \notin {JStr("opened"), JStr("synchronize")}
       \/ req.event_type = "issue_comment" /\ EventAction # JStr("created")
       \/ req.event_type \notin {"pull_request", "issue_comment"}
       \/ IssueCommentCreated /\ ExpectedCommand(CommentText) = "null"
       \/ /\ IssueCommentCreated
          /\ ExpectedCommand(CommentText) = "triage"
          /\ ~Truthy(GivenIssue.pull_request)

\* C29: a filtered event is answered 200 with status "ignored", no task is
\* dispatched for it in either mode and the store stays as it was.
C29_FilteredEventsAreIgnored ==
    Filtered =>
        /\ IsIgnored(http[1])
        /\ NoTask
        /\ store = << >>
        /\ classified = {}

\* C29 witness: in Inline mode a /triage comment on an issue that is not a
\* pull request was Ignored.
C29_Witness ==
    /\ Filtered
    /\ SINGLE_PROCESS
    /\ IssueCommentCreated
    /\ ExpectedCommand(CommentText) = "triage"
    /\ IsIgnored(http[1])
    /\ http[1].reason = "not_a_pr"

\* C30: for a PR that is not a draft and has at most 500 additions, the
\* fallback answers (Blocked/Stale, 80) exactly when pr_data's mergeable is
\* false; with mergeable true, null or absent it answers (Ready to Merge,
\* 50).
C30_ConflictOnlyWhenMergeableIsFalse ==
    (IsFallbackCall /\ CallReturned /\ ~DraftIsTrue /\ GivenAdditions <= 500)
      => /\ Verdict("Blocked/Stale", 80) <=> cin.pr_data.mergeable = JFalse
         /\ cin.pr_data.mergeable \in {JTrue, JNull, Absent}
               => Verdict("Ready to Merge", 50)

\* C30 witness: the fallback answered (Ready to Merge, 50) for a PR whose
\* mergeable is null.
C30_Witness ==
    /\ IsFallbackCall /\ CallReturned
    /\ ~DraftIsTrue
    /\ GivenAdditions <= 500
    /\ cin.pr_data.mergeable = JNull
    /\ Verdict("Ready to Merge", 50)

-----------------------------------------------------------------------------
(* Termination, publication per PR id, the /triage fallback, idempotence   *)

\* C31: under fair scheduling every task dispatched eventually ends in
\* success, skipped or failed and stays there: a task that has ended is
\* never executed or changed again.
C31_EveryTaskReachesATerminalOutcome ==
    /\ \A d \in Deliveries : <>[](Present(d) => Terminal(d))
    /\ [][\A d \in Deliveries : Terminal(d) => dlv'[d] = dlv[d]]_vars

\* C31 witness: a queued task that was retried once has ended as skipped.
C31_Witness ==
    \E d \in Deliveries :
        /\ ~dlv[d].direct
        /\ dlv[d].st = "skipped"
        /\ dlv[d].retries = 1
        /\ dlv[d].runs = 2

\* the step of delivery d that calls post_pr_comment
Posts(d) == dlv[d].st = "publish" /\ dlv'[d].st = "success"
\* delivery d is at or past the call of post_pr_comment
Publishing(d) == dlv[d].st \in {"publish", "success"}

\* C32: a comment is posted only by the publishing step of a delivery, one
\* comment a step; a delivery gets to that step only by committing the row
\* of its PR id; no two deliveries for one PR id ever get there, and one
\* that has posted is never run again; a delivery that was skipped, or that
\* finds the row of its PR id committed by another (at the check or, having
\* lost the race, at the insert), never gets there.
C32_AtMostOneCommentPerPrId ==
    [][/\ comments' # comments =>
              \E d \in Deliveries :
                  /\ Posts(d)
                  /\ \E c \in comments' :
                        /\ comments' = comments \cup {c}
                        /\ c.full_name = dlv[d].pr.full_name
                        /\ c.pr_number = dlv[d].pr.number
       /\ \A d \in Deliveries :
              /\ (~Publishing(d) /\ dlv'[d].st = "publish") =>
                    /\ Len(store') = Len(store) + 1
                    /\ store'[Len(store')].github_pr_id = dlv[d].pr.id
              /\ (~Publishing(d) /\ Publishing(d)') => dlv'[d].st = "publish"
              /\ Publishing(d)' =>
                    \A e \in Deliveries :
                        (e # d /\ dlv'[e].pr.id = dlv'[d].pr.id) => ~Publishing(e)'
              /\ dlv[d].st = "success" => dlv'[d] = dlv[d]
              /\ (~Publishing(d) /\ (dlv[d].st = "skipped" \/ HasRow(dlv[d].pr.id)))
                    => ~Publishing(d)'
      ]_vars

\* C32 witness: of two deliveries for one PR id, one committed and called
\* post_pr_comment; the other lost the insert, was sent again and skipped.
C32_Witness ==
    \E d, e \in Deliveries :
        /\ d # e
        /\ dlv[d].pr.id = dlv[e].pr.id
        /\ dlv[d].st = "success"
        /\ dlv[e].st = "skipped"
        /\ dlv[e].retries = 1
        /\ \E c \in comments : c.pr_number = dlv[d].pr.number

\* the verdict the task of delivery d holds came from the fallback
FromFallback(d) ==
    dlv[d].res.reasoning = JStr("Fallback classification due to analysis error")

\* C33: the data of a /triage task has no draft key, no mergeable key and
\* additions 0, so the fallback gives (Ready to Merge, 50, 0.3) on it:
\* every fallback verdict a /triage task holds, and every one it stores, is
\* that one.
C33_TriageFallbackIsReadyToMerge ==
    TriageCommand =>
        /\ dlv[1].pr.draft = Absent
        /\ dlv[1].pr.mergeable = Absent
        /\ dlv[1].pr.additions = JInt(0)
        /\ get_fallback_classification(dlv[1].pr) = FallbackResult("Ready to Merge", 50)
        /\ FromFallback(1) => dlv[1].res = FallbackResult("Ready to Merge", 50)
        /\ \A row \in Rows :
              row.reasoning = JStr("Fallback classification due to analysis error") =>
                  /\ row.classification = "Ready to Merge"
                  /\ row.priority_score = 50
                  /\ row.confidence = FallbackConfidence

\* C33 witness: the reasoning service failed for a /triage task, and the
\* task stored (Ready to Merge, 50, 0.3) and ended in success.
C33_Witness ==
    /\ TriageCommand
    /\ dlv[1].st = "success"
    /\ FromFallback(1)
    /\ \E row \in Rows :
          /\ row.github_pr_id = dlv[1].pr.id
          /\ row.classification = "Ready to Merge"
          /\ row.priority_score = 50
          /\ row.confidence = 30

\* the value of a JSON number in hundredths
Hundredths(v) == IF v.t = "int" THEN 100 * v.n ELSE v.n
\* an object that is already valid: classification in the enum, confidence
\* a number in [0.0, 1.0], priority_score an integer in [0, 100], reasoning
\* and suggested_action present
AlreadyValid(o) ==
    /\ o.classification.t = "str"
    /\ o.classification.s \in
          { "Ready to Merge", "Needs Architecture Discussion",
            "Needs Minor Fixes", "Needs Mentor Support",
            "Needs Maintainer Decision", "Blocked/Stale" }
    /\ o.confidence.t \in {"int", "float"}
    /\ Hundredths(o.confidence) >= 0 /\ Hundredths(o.confidence) <= 100
    /\ o.priority_score.t = "int"
    /\ o.priority_score.n \in 0..100
    /\ o.reasoning # Absent
    /\ o.suggested_action # Absent
\* the result equals the object, field by field, numbers compared by value
EqualsObject(res, o) ==
    /\ res.classification = o.classification.s
    /\ res.confidence = Hundredths(o.confidence)
    /\ res.priority_score = o.priority_score.n
    /\ res.reasoning = o.reasoning
    /\ res.suggested_action = o.suggested_action
ValidatedTwice == cin.fn = "_validate_result" /\ cout.status = "returned twice"

\* C34: _validate_result applied to the dict it returned gives that dict
\* again, whatever object it was first given; and the result for an object
\* that is already valid equals the object.
C34_ValidationIsIdempotent ==
    /\ []((IsValidateCall /\ CallReturned /\ AlreadyValid(GivenObject))
             => EqualsObject(Ret, GivenObject))
    /\ [](ValidatedTwice => cout.result = validate_result(GivenObject))
    /\ [][(cin.fn = "_validate_result" /\ CallReturned /\ ValidatedTwice')
             => cout'.result = cout.result]_vars

\* C34 witness: an object with an unknown classification, a confidence of
\* 1.5 and a priority of 101 was validated twice, with (Needs Minor Fixes,
\* 1.0, 100) both times.
C34_Witness ==
    /\ ValidatedTwice
    /\ GivenObject.classification = JStr("Approved")
    /\ GivenObject.confidence = JFloat(150)
    /\ GivenObject.priority_score = JInt(101)
    /\ cout.result.classification = "Needs Minor Fixes"
    /\ cout.result.confidence = 100
    /\ cout.result.priority_score = 100

====
